---- MODULE Spec2Model ----
(***************************************************************************)
(* Adaptive question sequencing of the quiz game: the generator function   *)
(* questionGenerator and the session driving it through next(answer).      *)
(*                                                                         *)
(* A question is identified by its position in the input array; its       *)
(* difficulty is the tag stored at that position.  The generator's local   *)
(* variables are the variables of the module; pc is the place where the    *)
(* generator is suspended.                                                 *)
(***************************************************************************)
EXTENDS Integers, Sequences, FiniteSets, TLC

\* Largest input array the model enumerates.
MaxPool == 6

\* The difficulty tags the question source delivers.
Tiers == {"easy", "medium", "hard"}

\* Array.prototype.shift() on an empty array; question ids start at 1, so 0
\* is the one falsy value a selection can produce.
Undefined == 0

\* lastAnswer is null before any answer was passed in, then true or false.
NullAnswer == <<>>
Some(b) == <<b>>

\* Every input array of at most MaxPool tagged questions, the empty one included.
Pools == UNION {[1..n -> Tiers] : n \in 0..MaxPool}

\* Largest input array of the long sessions, whose arrays list the easy
\* questions first, then the medium ones, then the hard ones.
MaxLongPool == 9

\* The array of e easy, m medium and h hard questions, in that order.
Grouped(e, m, h) ==
    [i \in 1..(e + m + h) |->
        IF i <= e THEN "easy" ELSE IF i <= e + m THEN "medium" ELSE "hard"]

GroupedPools ==
    {Grouped(c[1], c[2], c[3]) :
        c \in {d \in (0..MaxLongPool) \X (0..MaxLongPool) \X (0..MaxLongPool) :
                  d[1] + d[2] + d[3] <= MaxLongPool}}

VARIABLES
    questions,                  \* the input array (difficulty of each question)
    easy, medium, hard,         \* the three tier arrays of the generator
    consecutiveCorrect,
    consecutiveMediumCorrect,
    currentDifficulty,
    lastAnswer,
    pc,                         \* "created" | "opening" | "loop" | "done"
    exitPath,                   \* "none" | "while" | "break": how the loop was left
    emitted,                    \* history: the questions yielded so far
    answers,                    \* history: the answers passed to next() so far
    tierLog                     \* history: currentDifficulty at each yield

vars == <<questions, easy, medium, hard, consecutiveCorrect,
          consecutiveMediumCorrect, currentDifficulty, lastAnswer, pc,
          exitPath, emitted, answers, tierLog>>

\* The page and the QuizApp object around the generator.  In the app
\* questions is quiz.questions, pc = "null" stands for questionIterator =
\* null, and emitted, answers and tierLog are the histories of the
\* generator of the running session.
VARIABLES
    screen,                     \* the one screen showScreen left displayed
    usernameInput,              \* usernameInput.value.trim()
    quiz,                       \* "null" | "object"
    score, questionIndex, correctAnswers, incorrectAnswers,  \* fields of quiz
    currentQuestion,            \* Undefined for null
    correctStreak,
    hintsRemaining,
    usedHintOnCurrentQuestion,
    answerButtons,              \* "none" | "enabled" | "disabled"
    hintBtnDisabled,            \* hintBtn.disabled
    timers,                     \* pending setTimeout callbacks: their isCorrect
    scoreHistory,               \* the stored attempts of the user
    clicks,                     \* history: handleAnswerClick runs on the displayed question
    resultsShown                \* history: showResults runs of the session

appVars == <<screen, usernameInput, quiz, score, questionIndex, correctAnswers,
             incorrectAnswers, currentQuestion, correctStreak, hintsRemaining,
             usedHintOnCurrentQuestion, answerButtons, hintBtnDisabled, timers,
             scoreHistory, clicks, resultsShown>>

allVars == <<vars, appVars>>

----------------------------------------------------------------------------
\* questions.filter(q => q.difficulty === tier): ids of that tier, in order.
RECURSIVE FilterFrom(_, _, _)
FilterFrom(qs, tier, i) ==
    IF i > Len(qs) THEN <<>>
    ELSE IF qs[i] = tier THEN <<i>> \o FilterFrom(qs, tier, i + 1)
    ELSE FilterFrom(qs, tier, i + 1)

\* Mutation of Filter: the questions of a tier in reverse arrival order.
RECURSIVE FilterBackFrom(_, _, _)
FilterBackFrom(qs, tier, i) ==
    IF i < 1 THEN <<>>
    ELSE IF qs[i] = tier THEN <<i>> \o FilterBackFrom(qs, tier, i - 1)
    ELSE FilterBackFrom(qs, tier, i - 1)

FilterLastFirst(qs, tier) == FilterBackFrom(qs, tier, Len(qs))

Filter(qs, tier) == FilterFrom(qs, tier, 1)

\* Mutation of Shift: reads the front element without removing it.
ShiftKeep(arr) ==
    IF arr = <<>> THEN [val |-> Undefined, rest |-> <<>>]
    ELSE [val |-> Head(arr), rest |-> arr]

\* arr.shift(): the removed front element (Undefined on an empty array) and
\* the array afterwards.
Shift(arr) ==
    IF arr = <<>> THEN [val |-> Undefined, rest |-> <<>>]
    ELSE [val |-> Head(arr), rest |-> Tail(arr)]

\* Mutation of ShiftOr: every shift of the chain is evaluated, the value is
\* the first one that is not undefined.
RECURSIVE ShiftOrEager(_, _)
ShiftOrEager(g, order) ==
    IF order = <<>> THEN [g EXCEPT !.nextQuestion = Undefined]
    ELSE LET r == Shift(g[Head(order)])
             rest == ShiftOrEager([g EXCEPT ![Head(order)] = r.rest], Tail(order))
         IN  IF r.val # Undefined THEN [rest EXCEPT !.nextQuestion = r.val]
             ELSE rest

\* a.shift() || b.shift() || ... over the tiers named in order: each shift
\* is evaluated only when every earlier one returned undefined.
RECURSIVE ShiftOr(_, _)
ShiftOr(g, order) ==
    IF order = <<>> THEN [g EXCEPT !.nextQuestion = Undefined]
    ELSE LET r == Shift(g[Head(order)]) IN
         IF r.val # Undefined
         THEN [g EXCEPT ![Head(order)] = r.rest, !.nextQuestion = r.val]
         ELSE ShiftOr(g, Tail(order))

\* Mutations of the thresholds: one answer more to reach medium, one answer
\* less to reach hard.
EasyThresholdLate == 2 + 1
MediumThresholdEarly == 3 - 1

\* The streak a promotion needs: "Need 2 correct to move to medium", "Need 3
\* correct mediums to move to hard".
EasyThreshold == 2
MediumThreshold == 3

\* Mutation of DropFromHardOrder: the easy tier is tried before the medium one.
DropFromHardEasyFirst == <<"easy", "medium", "hard">>

\* Mutation of DropFromMediumOrder: the medium tier is tried before the easy one.
DropFromMediumMediumFirst == <<"medium", "easy", "hard">>

\* Mutation of FloorOrder: the hard tier is tried first.
FloorHardFirst == <<"hard", "medium", "easy">>

\* Mutation of BlockedEasyOrder: the hard tier is tried before the easy one.
BlockedEasyHardFirst == <<"hard", "easy">>

\* Mutation of FloorOrder: the medium tier is tried before the easy one.
FloorMediumFirst == <<"medium", "easy", "hard">>

\* Mutation of StayFallbackOrder: the medium tier is tried before the easy one.
StayFallbackMediumFirst == <<"medium", "easy", "hard">>

\* Mutation of NoSignalOrder: the chain stops after the easy tier.
NoSignalEasyOnly == <<"easy">>

\* The tier orders of the chained shifts, by the line that holds the chain.
BlockedEasyOrder == <<"easy", "hard">>                  \* promotion to medium blocked
BlockedMediumOrder == <<"medium", "easy">>              \* promotion to hard blocked
StayFallbackOrder == <<"easy", "medium", "hard">>       \* "Fallback to any available"
DropFromHardOrder == <<"medium", "easy", "hard">>       \* "Drop to medium"
DropFromMediumOrder == <<"easy", "medium", "hard">>     \* "Drop to easy"
FloorOrder == <<"easy", "medium", "hard">>              \* "Already at easy, stay there"
NoSignalOrder == <<"easy", "medium", "hard">>           \* "Should not happen, but fallback"

\* The generator's locals as one record g.
Locals ==
    [easy |-> easy, medium |-> medium, hard |-> hard,
     consecutiveCorrect |-> consecutiveCorrect,
     consecutiveMediumCorrect |-> consecutiveMediumCorrect,
     currentDifficulty |-> currentDifficulty,
     lastAnswer |-> lastAnswer,
     nextQuestion |-> Undefined]

\* Mutation of PoolNonEmpty: the hard tier is left out of the loop test.
PoolNonEmptyNoHard(g) == Len(g.easy) > 0 \/ Len(g.medium) > 0

\* The while condition.
PoolNonEmpty(g) == Len(g.easy) > 0 \/ Len(g.medium) > 0 \/ Len(g.hard) > 0

\* Mutation of OnCorrect: the promotion from easy goes to hard when a hard
\* question is left.
OnCorrectSkipsMedium(g) ==
    LET g1 == [g EXCEPT !.consecutiveCorrect = @ + 1]
        g2 == IF g1.currentDifficulty = "medium"
              THEN [g1 EXCEPT !.consecutiveMediumCorrect = @ + 1]
              ELSE g1
    IN  IF g2.currentDifficulty = "easy" /\ g2.consecutiveCorrect >= EasyThreshold
        THEN IF Len(g2.medium) > 0
             THEN IF Len(g2.hard) > 0
                  THEN ShiftOr([g2 EXCEPT !.currentDifficulty = "hard"], <<"hard">>)
                  ELSE ShiftOr([g2 EXCEPT !.currentDifficulty = "medium",
                                          !.consecutiveMediumCorrect = 0],
                               <<"medium">>)
             ELSE ShiftOr(g2, BlockedEasyOrder)
        ELSE IF g2.currentDifficulty = "medium" /\ g2.consecutiveMediumCorrect >= MediumThreshold
        THEN IF Len(g2.hard) > 0
             THEN ShiftOr([g2 EXCEPT !.currentDifficulty = "hard"], <<"hard">>)
             ELSE ShiftOr(g2, BlockedMediumOrder)
        ELSE IF g2.currentDifficulty = "easy" /\ Len(g2.easy) > 0
             THEN ShiftOr(g2, <<"easy">>)
        ELSE IF g2.currentDifficulty = "medium" /\ Len(g2.medium) > 0
             THEN ShiftOr(g2, <<"medium">>)
        ELSE IF g2.currentDifficulty = "hard" /\ Len(g2.hard) > 0
             THEN ShiftOr(g2, <<"hard">>)
        ELSE ShiftOr(g2, StayFallbackOrder)

\* Mutation of OnCorrect: with the medium array empty and the easy array
\* empty the blocked promotion takes a hard question and moves the tier to
\* medium.
OnCorrectUnlocksEasy(g) ==
    LET g1 == [g EXCEPT !.consecutiveCorrect = @ + 1]
        g2 == IF g1.currentDifficulty = "medium"
              THEN [g1 EXCEPT !.consecutiveMediumCorrect = @ + 1]
              ELSE g1
    IN  IF g2.currentDifficulty = "easy" /\ g2.consecutiveCorrect >= EasyThreshold
        THEN IF Len(g2.medium) > 0
             THEN ShiftOr([g2 EXCEPT !.currentDifficulty = "medium",
                                     !.consecutiveMediumCorrect = 0],
                          <<"medium">>)
             ELSE IF Len(g2.easy) > 0
                  THEN ShiftOr(g2, BlockedEasyOrder)
                  ELSE ShiftOr([g2 EXCEPT !.currentDifficulty = "medium",
                                          !.consecutiveMediumCorrect = 0],
                               BlockedEasyOrder)
        ELSE IF g2.currentDifficulty = "medium" /\ g2.consecutiveMediumCorrect >= MediumThreshold
        THEN IF Len(g2.hard) > 0
             THEN ShiftOr([g2 EXCEPT !.currentDifficulty = "hard"], <<"hard">>)
             ELSE ShiftOr(g2, BlockedMediumOrder)
        ELSE IF g2.currentDifficulty = "easy" /\ Len(g2.easy) > 0
             THEN ShiftOr(g2, <<"easy">>)
        ELSE IF g2.currentDifficulty = "medium" /\ Len(g2.medium) > 0
             THEN ShiftOr(g2, <<"medium">>)
        ELSE IF g2.currentDifficulty = "hard" /\ Len(g2.hard) > 0
             THEN ShiftOr(g2, <<"hard">>)
        ELSE ShiftOr(g2, StayFallbackOrder)

\* Mutation of OnCorrect: the streak restarts when the tier is promoted.
OnCorrectRestartsStreak(g) ==
    LET g1 == [g EXCEPT !.consecutiveCorrect = @ + 1]
        g2 == IF g1.currentDifficulty = "medium"
              THEN [g1 EXCEPT !.consecutiveMediumCorrect = @ + 1]
              ELSE g1
    IN  IF g2.currentDifficulty = "easy" /\ g2.consecutiveCorrect >= EasyThreshold
        THEN IF Len(g2.medium) > 0
             THEN ShiftOr([g2 EXCEPT !.currentDifficulty = "medium",
                                     !.consecutiveCorrect = 0,
                                     !.consecutiveMediumCorrect = 0],
                          <<"medium">>)
             ELSE ShiftOr(g2, BlockedEasyOrder)
        ELSE IF g2.currentDifficulty = "medium" /\ g2.consecutiveMediumCorrect >= MediumThreshold
        THEN IF Len(g2.hard) > 0
             THEN ShiftOr([g2 EXCEPT !.currentDifficulty = "hard",
                                     !.consecutiveCorrect = 0], <<"hard">>)
             ELSE ShiftOr(g2, BlockedMediumOrder)
        ELSE IF g2.currentDifficulty = "easy" /\ Len(g2.easy) > 0
             THEN ShiftOr(g2, <<"easy">>)
        ELSE IF g2.currentDifficulty = "medium" /\ Len(g2.medium) > 0
             THEN ShiftOr(g2, <<"medium">>)
        ELSE IF g2.currentDifficulty = "hard" /\ Len(g2.hard) > 0
             THEN ShiftOr(g2, <<"hard">>)
        ELSE ShiftOr(g2, StayFallbackOrder)

\* Branch lastAnswer === true, lines 161-203.
OnCorrect(g) ==
    LET g1 == [g EXCEPT !.consecutiveCorrect = @ + 1]
        g2 == IF g1.currentDifficulty = "medium"
              THEN [g1 EXCEPT !.consecutiveMediumCorrect = @ + 1]
              ELSE g1
    IN  IF g2.currentDifficulty = "easy" /\ g2.consecutiveCorrect >= EasyThreshold
        THEN IF Len(g2.medium) > 0
             THEN ShiftOr([g2 EXCEPT !.currentDifficulty = "medium",
                                     !.consecutiveMediumCorrect = 0],
                          <<"medium">>)
             ELSE ShiftOr(g2, BlockedEasyOrder)
        ELSE IF g2.currentDifficulty = "medium" /\ g2.consecutiveMediumCorrect >= MediumThreshold
        THEN IF Len(g2.hard) > 0
             THEN ShiftOr([g2 EXCEPT !.currentDifficulty = "hard"], <<"hard">>)
             ELSE ShiftOr(g2, BlockedMediumOrder)
        ELSE IF g2.currentDifficulty = "easy" /\ Len(g2.easy) > 0
             THEN ShiftOr(g2, <<"easy">>)
        ELSE IF g2.currentDifficulty = "medium" /\ Len(g2.medium) > 0
             THEN ShiftOr(g2, <<"medium">>)
        ELSE IF g2.currentDifficulty = "hard" /\ Len(g2.hard) > 0
             THEN ShiftOr(g2, <<"hard">>)
        ELSE ShiftOr(g2, StayFallbackOrder)

\* Mutation of OnIncorrect: a wrong answer at hard drops straight to easy.
OnIncorrectDropsToEasy(g) ==
    LET g1 == [g EXCEPT !.consecutiveCorrect = 0]
    IN  IF g1.currentDifficulty \in {"hard", "medium"}
        THEN ShiftOr([g1 EXCEPT !.currentDifficulty = "easy",
                                !.consecutiveMediumCorrect = 0],
                     DropFromMediumOrder)
        ELSE ShiftOr(g1, FloorOrder)

\* Mutation of OnIncorrect: the medium streak survives the drop from hard.
OnIncorrectKeepsMediumStreak(g) ==
    LET g1 == [g EXCEPT !.consecutiveCorrect = 0]
    IN  IF g1.currentDifficulty = "hard"
        THEN ShiftOr([g1 EXCEPT !.currentDifficulty = "medium"],
                     DropFromHardOrder)
        ELSE IF g1.currentDifficulty = "medium"
        THEN ShiftOr([g1 EXCEPT !.currentDifficulty = "easy",
                                !.consecutiveMediumCorrect = 0],
                     DropFromMediumOrder)
        ELSE ShiftOr(g1, FloorOrder)

\* Branch lastAnswer === false, lines 204-226.
OnIncorrect(g) ==
    LET g1 == [g EXCEPT !.consecutiveCorrect = 0]
    IN  IF g1.currentDifficulty = "hard"
        THEN ShiftOr([g1 EXCEPT !.currentDifficulty = "medium",
                                !.consecutiveMediumCorrect = 0],
                     DropFromHardOrder)
        ELSE IF g1.currentDifficulty = "medium"
        THEN ShiftOr([g1 EXCEPT !.currentDifficulty = "easy",
                                !.consecutiveMediumCorrect = 0],
                     DropFromMediumOrder)
        ELSE ShiftOr(g1, FloorOrder)

\* Mutation of NoSignal: the branch moves the tier to medium.
NoSignalPromotes(g) ==
    ShiftOr([g EXCEPT !.currentDifficulty = "medium"], NoSignalOrder)

\* Branch taken when lastAnswer is neither true nor false, lines 227-230.
NoSignal(g) == ShiftOr(g, NoSignalOrder)

\* One pass through the body of the while loop, lines 159-230.
LoopBody(g) ==
    IF g.lastAnswer = Some(TRUE) THEN OnCorrect(g)
    ELSE IF g.lastAnswer = Some(FALSE) THEN OnIncorrect(g)
    ELSE NoSignal(g)

\* The assignments after the opening yield, lines 148-154.
SeedStreak(g, answer) ==
    [g EXCEPT !.lastAnswer = Some(answer),
              !.consecutiveCorrect = IF answer = TRUE THEN 1 ELSE 0]

\* The assignment at the yield inside the loop, line 234.
Resume(g, answer) == [g EXCEPT !.lastAnswer = Some(answer)]

----------------------------------------------------------------------------
\* The generator after questionGenerator(questions): no line of its body has run.
InitGenerator ==
    /\ easy = <<>> /\ medium = <<>> /\ hard = <<>>
    /\ consecutiveCorrect = 0
    /\ consecutiveMediumCorrect = 0
    /\ currentDifficulty = "easy"
    /\ lastAnswer = NullAnswer
    /\ pc = "created"
    /\ exitPath = "none"
    /\ emitted = <<>>
    /\ answers = <<>>
    /\ tierLog = <<>>

\* The app after new QuizApp() on the freshly loaded page, lines 266-287.
InitApp ==
    /\ screen = "username"
    /\ usernameInput = ""
    /\ quiz = "null"
    /\ score = 0 /\ questionIndex = 0
    /\ correctAnswers = 0 /\ incorrectAnswers = 0
    /\ currentQuestion = Undefined
    /\ correctStreak = 0
    /\ hintsRemaining = 3
    /\ usedHintOnCurrentQuestion = FALSE
    /\ answerButtons = "none"
    /\ hintBtnDisabled = FALSE
    /\ timers = <<>>
    /\ scoreHistory = <<>>
    /\ clicks = 0
    /\ resultsShown = 0

\* The generator driven directly: the app stays as constructed.
Init == questions \in Pools /\ InitGenerator /\ InitApp

InitLong == questions \in GroupedPools /\ InitGenerator /\ InitApp

\* Mutation of FreshLocals: a new generator starts with a streak of 1.
FreshLocalsStreakOne(qs) ==
    [easy |-> Filter(qs, "easy"), medium |-> Filter(qs, "medium"),
     hard |-> Filter(qs, "hard"),
     consecutiveCorrect |-> 1,
     consecutiveMediumCorrect |-> 0,
     currentDifficulty |-> "easy",
     lastAnswer |-> NullAnswer,
     nextQuestion |-> Undefined]

\* The locals at the top of the generator body, lines 133-142.
FreshLocals(qs) ==
    [easy |-> Filter(qs, "easy"), medium |-> Filter(qs, "medium"),
     hard |-> Filter(qs, "hard"),
     consecutiveCorrect |-> 0,
     consecutiveMediumCorrect |-> 0,
     currentDifficulty |-> "easy",
     lastAnswer |-> NullAnswer,
     nextQuestion |-> Undefined]

\* What a call of next() leaves behind: the locals g, the place where the
\* generator stands, how the loop was left, and the value returned (the
\* question yielded, Undefined with done: true).
Yield(g, q, p) == [g |-> g, pc |-> p, exitPath |-> "none", value |-> q]

Return(g, how) == [g |-> g, pc |-> "done", exitPath |-> how, value |-> Undefined]

\* Run from the while test to the next yield or to the end, lines 158-239.
RunLoop(g) ==
    IF PoolNonEmpty(g)
    THEN LET r == LoopBody(g) IN
         IF r.nextQuestion # Undefined
         THEN Yield(r, r.nextQuestion, "loop")
         ELSE Return(r, "break")
    ELSE Return(g, "while")

\* Mutation of FirstNext: the session opens with a medium question.
FirstNextOpensMedium(qs) ==
    LET g == FreshLocals(qs)
    IN  IF Len(g.medium) > 0
        THEN LET r == Shift(g.medium) IN
             Yield([g EXCEPT !.medium = r.rest], r.val, "opening")
        ELSE RunLoop(g)

\* The first next() on questionGenerator(qs): partition, then the opening
\* move or straight into the loop.
FirstNext(qs) ==
    LET g == FreshLocals(qs)
    IN  IF Len(g.easy) > 0
        THEN LET r == Shift(g.easy) IN
             Yield([g EXCEPT !.easy = r.rest], r.val, "opening")
        ELSE RunLoop(g)

\* next(answer) on a generator suspended at place p with locals g.
ResumeNext(g, p, answer) ==
    IF p = "opening"
    THEN RunLoop(SeedStreak(g, answer))
    ELSE RunLoop(Resume(g, answer))

\* Write the outcome of a call back to the variables; em and tl are the
\* histories of the generator the call was made on.
Store(out, em, tl) ==
    /\ easy' = out.g.easy /\ medium' = out.g.medium /\ hard' = out.g.hard
    /\ consecutiveCorrect' = out.g.consecutiveCorrect
    /\ consecutiveMediumCorrect' = out.g.consecutiveMediumCorrect
    /\ currentDifficulty' = out.g.currentDifficulty
    /\ lastAnswer' = out.g.lastAnswer
    /\ pc' = out.pc
    /\ exitPath' = out.exitPath
    /\ emitted' = IF out.value # Undefined THEN Append(em, out.value) ELSE em
    /\ tierLog' = IF out.value # Undefined
                  THEN Append(tl, out.g.currentDifficulty) ELSE tl

\* The first next() of a session driven directly.
Start ==
    /\ pc = "created"
    /\ Store(FirstNext(questions), emitted, tierLog)
    /\ UNCHANGED <<questions, answers>>
    /\ UNCHANGED appVars

\* next(answer) on a suspended generator.
Advance(answer) ==
    /\ pc \in {"opening", "loop"}
    /\ answers' = Append(answers, answer)
    /\ Store(ResumeNext(Locals, pc, answer), emitted, tierLog)
    /\ UNCHANGED questions
    /\ UNCHANGED appVars

Next == Start \/ \E answer \in BOOLEAN : Advance(answer)

Spec == Init /\ [][Next]_vars

\* The same generator over the longer, tier-grouped input arrays.
SpecLong == InitLong /\ [][Next]_vars

\* Calls of next(answer) outside the alternation.  The generator object
\* takes them like any other call: the value passed to the first next() is
\* discarded and the body runs to its first yield; next() on a finished
\* generator returns done: true and changes nothing.  answers logs every
\* value a call that returned normally was given.

\* Most values logged beyond one per input question.
MaxLateCalls == 2

\* next(answer) as the first call, before any question was produced.
AdvanceBeforeStart(answer) ==
    /\ pc = "created"
    /\ answers' = Append(answers, answer)
    /\ Store(FirstNext(questions), emitted, tierLog)
    /\ UNCHANGED questions
    /\ UNCHANGED appVars

\* next(answer) on a generator that has returned.
AdvanceAfterDone(answer) ==
    /\ pc = "done"
    /\ Len(answers) < Len(questions) + MaxLateCalls
    /\ answers' = Append(answers, answer)
    /\ UNCHANGED <<questions, easy, medium, hard, consecutiveCorrect,
                   consecutiveMediumCorrect, currentDifficulty, lastAnswer,
                   pc, exitPath, emitted, tierLog>>
    /\ UNCHANGED appVars

NextMisuse ==
    \/ Next
    \/ \E answer \in BOOLEAN : AdvanceBeforeStart(answer)
    \/ \E answer \in BOOLEAN : AdvanceAfterDone(answer)

\* The generator under a caller that does not keep to the alternation.
SpecMisuse == Init /\ [][NextMisuse]_vars

----------------------------------------------------------------------------
\* The app: QuizApp's handlers, one action per handler run.  A button takes
\* a click only while the screen it belongs to is displayed (showScreen
\* hides every other screen) and while it is not disabled: start on the
\* username screen, retry and back on the error screen, the answer buttons
\* and the hint button on the quiz screen, restart on the results screen.

\* Most questions a fetch resolves with.
MaxAppPool == 3

\* Most attempts stored for the user.
MaxAttempts == 2

AppPools == UNION {[1..n -> Tiers] : n \in 0..MaxAppPool}

\* questionIterator = null.
NoGenerator ==
    /\ easy' = <<>> /\ medium' = <<>> /\ hard' = <<>>
    /\ consecutiveCorrect' = 0
    /\ consecutiveMediumCorrect' = 0
    /\ currentDifficulty' = "easy"
    /\ lastAnswer' = NullAnswer
    /\ pc' = "null"
    /\ exitPath' = "none"
    /\ emitted' = <<>> /\ answers' = <<>> /\ tierLog' = <<>>

\* The page before any session: no quiz, no generator.
InitAppSession ==
    /\ questions = <<>>
    /\ easy = <<>> /\ medium = <<>> /\ hard = <<>>
    /\ consecutiveCorrect = 0
    /\ consecutiveMediumCorrect = 0
    /\ currentDifficulty = "easy"
    /\ lastAnswer = NullAnswer
    /\ pc = "null"
    /\ exitPath = "none"
    /\ emitted = <<>> /\ answers = <<>> /\ tierLog = <<>>
    /\ InitApp

generatorVars == <<easy, medium, hard, consecutiveCorrect,
                   consecutiveMediumCorrect, currentDifficulty, lastAnswer,
                   pc, exitPath, emitted, answers, tierLog>>

quizVars == <<quiz, score, questionIndex, correctAnswers, incorrectAnswers>>

\* Quiz.checkAnswer counting 2 for a question above easy.
CheckAnswerWeighted(isCorrect) ==
    IF isCorrect
    THEN /\ correctAnswers' = correctAnswers + 1
         /\ score' = score + (IF questions[currentQuestion] = "easy" THEN 1 ELSE 2)
         /\ UNCHANGED incorrectAnswers
    ELSE /\ incorrectAnswers' = incorrectAnswers + 1
         /\ UNCHANGED <<correctAnswers, score>>

\* Quiz.checkAnswer, lines 32-40.
CheckAnswer(isCorrect) ==
    IF isCorrect
    THEN /\ correctAnswers' = correctAnswers + 1
         /\ score' = score + 1
         /\ UNCHANGED incorrectAnswers
    ELSE /\ incorrectAnswers' = incorrectAnswers + 1
         /\ UNCHANGED <<correctAnswers, score>>

\* Quiz.nextQuestion run only after a correct answer.
NextQuestionOnCorrect(isCorrect) ==
    questionIndex' = IF isCorrect THEN questionIndex + 1 ELSE questionIndex

\* Quiz.nextQuestion, lines 42-44, as handleAnswerClick calls it.
NextQuestion(isCorrect) == questionIndex' = questionIndex + 1

\* Quiz.isEnded, lines 46-48.
IsEnded == questionIndex = Len(questions)

\* The answer buttons left as they are.
LeaveButtonsEnabled == "enabled"

\* disableAllButtons, lines 539-543: the state of the answer buttons after it.
DisableAllButtons == "disabled"

\* User.addScore storing one point more than it is given.
AddScoreOneMore(history, s, total) ==
    Append(history, [score |-> s + 1, total |-> total])

\* User.addScore, lines 65-77: the attempt pushed to the history.
AddScore(history, s, total) ==
    Append(history, [score |-> s, total |-> total])

\* updateHintButton, lines 367-382: hintBtn.disabled after it.
UpdateHintButton(remaining, used) == remaining <= 0 \/ used

\* displayQuestion, lines 437-465.
DisplayQuestion(q, remaining) ==
    /\ currentQuestion' = q
    /\ usedHintOnCurrentQuestion' = FALSE
    /\ answerButtons' = "enabled"
    /\ clicks' = 0
    /\ hintBtnDisabled' = UpdateHintButton(remaining, FALSE)

\* showResults, lines 555-591, for a quiz of the given score and length.
ShowResults(s, total) ==
    /\ scoreHistory' = AddScore(scoreHistory, s, total)
    /\ resultsShown' = resultsShown + 1
    /\ screen' = "results"

\* The rest of showNextQuestion, lines 428-434, after next() gave out; scr
\* is the screen displayed when it runs.
AfterNext(out, scr, s, total) ==
    IF out.pc # "done"
    THEN /\ DisplayQuestion(out.value, hintsRemaining)
         /\ screen' = scr
         /\ UNCHANGED <<scoreHistory, resultsShown>>
    ELSE /\ ShowResults(s, total)
         /\ UNCHANGED <<currentQuestion, usedHintOnCurrentQuestion,
                        answerButtons, clicks, hintBtnDisabled>>

\* The user edits the username field.
TypeUsername(u) ==
    /\ screen = "username"
    /\ u # usernameInput
    /\ usernameInput' = u
    /\ UNCHANGED <<vars, screen, quizVars, currentQuestion, correctStreak,
                   hintsRemaining, usedHintOnCurrentQuestion, answerButtons,
                   hintBtnDisabled, timers, scoreHistory, clicks, resultsShown>>

\* startQuiz up to its await, lines 384-399.
StartQuizSync ==
    IF usernameInput = ""
    THEN UNCHANGED allVars
    ELSE /\ hintsRemaining' = 3
         /\ correctStreak' = 0
         /\ screen' = "loading"
         /\ UNCHANGED <<vars, usernameInput, quizVars, currentQuestion,
                        usedHintOnCurrentQuestion, answerButtons,
                        hintBtnDisabled, timers, scoreHistory, clicks,
                        resultsShown>>

\* A click on the start button.
StartQuiz ==
    /\ screen = "username"
    /\ Len(scoreHistory) < MaxAttempts
    /\ StartQuizSync

\* A click on the retry button, lines 412-414.
RetryQuiz ==
    /\ screen = "error"
    /\ StartQuizSync

\* A click on the back button, lines 416-418.
BackToHome ==
    /\ screen = "error"
    /\ screen' = "username"
    /\ UNCHANGED <<vars, usernameInput, quizVars, currentQuestion,
                   correctStreak, hintsRemaining, usedHintOnCurrentQuestion,
                   answerButtons, hintBtnDisabled, timers, scoreHistory,
                   clicks, resultsShown>>

\* fetchQuestions resolves with qs: startQuiz from its await, lines 400-405.
FetchResolve(qs) ==
    /\ screen = "loading"
    /\ questions' = qs
    /\ quiz' = "object"
    /\ score' = 0 /\ questionIndex' = 0
    /\ correctAnswers' = 0 /\ incorrectAnswers' = 0
    /\ answers' = <<>>
    /\ LET out == FirstNext(qs) IN
         /\ Store(out, <<>>, <<>>)
         /\ resultsShown' = IF out.pc # "done" THEN 0 ELSE 1
         /\ IF out.pc # "done"
            THEN /\ DisplayQuestion(out.value, hintsRemaining)
                 /\ screen' = "quiz"
                 /\ UNCHANGED scoreHistory
            ELSE /\ scoreHistory' = AddScore(scoreHistory, 0, Len(qs))
                 /\ screen' = "results"
                 /\ UNCHANGED <<currentQuestion, usedHintOnCurrentQuestion,
                                answerButtons, clicks, hintBtnDisabled>>
    /\ UNCHANGED <<usernameInput, correctStreak, hintsRemaining, timers>>

\* fetchQuestions rejects: the catch of startQuiz, lines 406-409.
FetchReject ==
    /\ screen = "loading"
    /\ screen' = "error"
    /\ UNCHANGED <<vars, usernameInput, quizVars, currentQuestion,
                   correctStreak, hintsRemaining, usedHintOnCurrentQuestion,
                   answerButtons, hintBtnDisabled, timers, scoreHistory,
                   clicks, resultsShown>>

\* A click on an answer button, correct or not: handleAnswerClick, 467-493.
HandleAnswerClick(isCorrect) ==
    /\ screen = "quiz"
    /\ answerButtons = "enabled"
    /\ CheckAnswer(isCorrect)
    /\ correctStreak' = IF isCorrect THEN correctStreak + 1 ELSE 0
    /\ answerButtons' = DisableAllButtons
    /\ NextQuestion(isCorrect)
    /\ timers' = Append(timers, isCorrect)
    /\ clicks' = clicks + 1
    /\ UNCHANGED <<vars, screen, usernameInput, quiz, currentQuestion,
                   hintsRemaining, usedHintOnCurrentQuestion, hintBtnDisabled,
                   scoreHistory, resultsShown>>

\* Mutation of TimerFires: the generator takes the question it yields off
\* the front of the quiz's own array.
TimerFiresConsumesInput ==
    /\ timers # <<>>
    /\ timers' = Tail(timers)
    /\ IF pc \in {"opening", "loop"}
       THEN LET out == ResumeNext(Locals, pc, Head(timers)) IN
              /\ answers' = Append(answers, Head(timers))
              /\ Store(out, emitted, tierLog)
              /\ AfterNext(out, screen, score, Len(questions))
              /\ questions' = IF out.value # Undefined THEN Tail(questions)
                              ELSE questions
       ELSE IF pc = "done"
       THEN /\ ShowResults(score, Len(questions))
            /\ UNCHANGED <<generatorVars, currentQuestion,
                           usedHintOnCurrentQuestion, answerButtons, clicks,
                           hintBtnDisabled, questions>>
       ELSE UNCHANGED <<generatorVars, screen, currentQuestion,
                        usedHintOnCurrentQuestion, answerButtons, clicks,
                        hintBtnDisabled, scoreHistory, resultsShown, questions>>
    /\ UNCHANGED <<usernameInput, quizVars, correctStreak, hintsRemaining>>

\* The 1500 ms timer fires: showNextQuestion(isCorrect), lines 427-435.
\* next() on a finished generator gives done again; on questionIterator =
\* null the call throws and the callback ends.
TimerFires ==
    /\ timers # <<>>
    /\ timers' = Tail(timers)
    /\ IF pc \in {"opening", "loop"}
       THEN LET out == ResumeNext(Locals, pc, Head(timers)) IN
              /\ answers' = Append(answers, Head(timers))
              /\ Store(out, emitted, tierLog)
              /\ AfterNext(out, screen, score, Len(questions))
       ELSE IF pc = "done"
       THEN /\ ShowResults(score, Len(questions))
            /\ UNCHANGED <<generatorVars, currentQuestion,
                           usedHintOnCurrentQuestion, answerButtons, clicks,
                           hintBtnDisabled>>
       ELSE UNCHANGED <<generatorVars, screen, currentQuestion,
                        usedHintOnCurrentQuestion, answerButtons, clicks,
                        hintBtnDisabled, scoreHistory, resultsShown>>
    /\ UNCHANGED <<questions, usernameInput, quizVars, correctStreak,
                   hintsRemaining>>

\* Mutation of Use5050Hint: a hint costs two of the budget.
Use5050HintTakesTwo ==
    /\ screen = "quiz"
    /\ ~hintBtnDisabled
    /\ IF hintsRemaining <= 0 \/ usedHintOnCurrentQuestion
       THEN UNCHANGED <<hintsRemaining, usedHintOnCurrentQuestion,
                        hintBtnDisabled>>
       ELSE /\ hintsRemaining' = hintsRemaining - 2
            /\ usedHintOnCurrentQuestion' = TRUE
            /\ hintBtnDisabled' = UpdateHintButton(hintsRemaining - 2, TRUE)
    /\ UNCHANGED <<vars, screen, usernameInput, quizVars, currentQuestion,
                   correctStreak, answerButtons, timers, scoreHistory, clicks,
                   resultsShown>>

\* A click on the hint button: use5050Hint, lines 340-365.
Use5050Hint ==
    /\ screen = "quiz"
    /\ ~hintBtnDisabled
    /\ IF hintsRemaining <= 0 \/ usedHintOnCurrentQuestion
       THEN UNCHANGED <<hintsRemaining, usedHintOnCurrentQuestion,
                        hintBtnDisabled>>
       ELSE /\ hintsRemaining' = hintsRemaining - 1
            /\ usedHintOnCurrentQuestion' = TRUE
            /\ hintBtnDisabled' = UpdateHintButton(hintsRemaining - 1, TRUE)
    /\ UNCHANGED <<vars, screen, usernameInput, quizVars, currentQuestion,
                   correctStreak, answerButtons, timers, scoreHistory, clicks,
                   resultsShown>>

\* A click on the restart button: restartQuiz, lines 614-623.
RestartQuiz ==
    /\ screen = "results"
    /\ screen' = "username"
    /\ usernameInput' = ""
    /\ quiz' = "null"
    /\ questions' = <<>>
    /\ score' = 0 /\ questionIndex' = 0
    /\ correctAnswers' = 0 /\ incorrectAnswers' = 0
    /\ NoGenerator
    /\ currentQuestion' = Undefined
    /\ correctStreak' = 0
    /\ hintsRemaining' = 3
    /\ UNCHANGED <<usedHintOnCurrentQuestion, answerButtons, hintBtnDisabled,
                   timers, scoreHistory, clicks, resultsShown>>

NextApp ==
    \/ \E u \in {"", "u"} : TypeUsername(u)
    \/ StartQuiz
    \/ RetryQuiz
    \/ BackToHome
    \/ \E qs \in AppPools : FetchResolve(qs)
    \/ FetchReject
    \/ \E isCorrect \in BOOLEAN : HandleAnswerClick(isCorrect)
    \/ TimerFires
    \/ Use5050Hint
    \/ RestartQuiz

\* The app under any user and any outcome of the fetch.
SpecApp == InitAppSession /\ [][NextApp]_allVars

\* The app with the event loop running every timer and a user who answers
\* every displayed question.
SpecAppLive ==
    /\ SpecApp
    /\ WF_allVars(TimerFires)
    /\ WF_allVars(\E isCorrect \in BOOLEAN : HandleAnswerClick(isCorrect))

----------------------------------------------------------------------------
\* Helpers of the properties.

Range(seq) == {seq[i] : i \in DOMAIN seq}

\* seq holds every question of the input exactly once.
IsPermutationOfInput(seq) ==
    /\ Len(seq) = Len(questions)
    /\ Range(seq) = 1..Len(questions)

Suspended == pc \in {"opening", "loop"}

\* Both feedback values occur among the answers given so far.
MixedAnswers == TRUE \in Range(answers) /\ FALSE \in Range(answers)

\* The input holds a question of every tier.
AllTiersPresent == Range(questions) = Tiers

----------------------------------------------------------------------------
\* C1 (conservation): from the first next() on, the three tier arrays and
\* the questions already yielded hold every input question exactly once;
\* when the generator is done every input question has been yielded
\* exactly once.
Conservation ==
    /\ pc # "created" => IsPermutationOfInput(easy \o medium \o hard \o emitted)
    /\ pc = "done" => IsPermutationOfInput(emitted)

\* A finished session over all three tiers with both kinds of answer.
ConservationWitness ==
    /\ pc = "done"
    /\ AllTiersPresent
    /\ MixedAnswers
    /\ Len(emitted) >= 5

\* C2 (termination): for N >= 1 input questions, the first next() and each
\* of the first N-1 next(answer) calls return a question, and the N-th
\* next(answer) returns done: a suspended generator has yielded one
\* question more than it has received answers, fewer than N answers, and a
\* finished one has received exactly N answers.
Termination ==
    Len(questions) >= 1 =>
        /\ Suspended => Len(emitted) = Len(answers) + 1 /\ Len(answers) < Len(questions)
        /\ pc = "done" => Len(answers) = Len(questions)

\* A session of at least five questions ended by its last answer.
TerminationWitness ==
    /\ pc = "done"
    /\ Len(questions) >= 5
    /\ Len(answers) = Len(questions)
    /\ MixedAnswers

\* C3 (exhaustion is the only exit): the loop is never left through the
\* "No more questions available" break, and the generator is done only
\* when all three tier arrays are empty.
OnlyExhaustionEnds ==
    /\ exitPath # "break"
    /\ pc = "done" => ~PoolNonEmpty(Locals)

\* The selection found a question in another tier than the current one,
\* whose array was empty, and the session went on to exhaustion.
OnlyExhaustionEndsWitness ==
    /\ pc = "done" /\ exitPath = "while"
    /\ \E k \in DOMAIN emitted : questions[emitted[k]] # tierLog[k]
    /\ Len(emitted) >= 3

----------------------------------------------------------------------------
\* Helpers of the step properties.  A step of Advance consumes one answer:
\* before it the generator is suspended at a yield, n = Len(answers) answers
\* were given and emitted[n + 1] is the question waiting for its answer;
\* tierLog[k] is the tier under which answer k is received.

\* This step is next(b).
Receives(b) == Suspended /\ answers' = Append(answers, b)

\* This step yields question q.
Emits(q) == pc' = "loop" /\ emitted' = Append(emitted, q)

\* The last k answers given so far were all correct and were all received
\* at the given tier.
LastCorrectAt(k, tier) ==
    /\ Len(answers) >= k
    /\ \A i \in (Len(answers) - k + 1)..Len(answers) :
          answers[i] = TRUE /\ tierLog[i] = tier

\* The front of the first non-empty array among a, b, c.
Front(a, b, c) ==
    IF a # <<>> THEN Head(a) ELSE IF b # <<>> THEN Head(b) ELSE Head(c)

\* The number of incorrect answers among answers i .. j.
RECURSIVE Incorrect(_, _)
Incorrect(i, j) ==
    IF i > j THEN 0
    ELSE (IF answers[j] = FALSE THEN 1 ELSE 0) + Incorrect(i, j - 1)

\* The input array of the canonical example: E1, E2, M1, M2, H1.
CanonicalPool == <<"easy", "easy", "medium", "medium", "hard">>

----------------------------------------------------------------------------
\* C5 (canonical example): on the input E1, E2, M1, M2, H1 with every answer
\* correct, the first three questions yielded are E1, E2, M1 in that order,
\* the second of them with the tier still easy.
CanonicalExample ==
    (questions = CanonicalPool /\ \A i \in DOMAIN answers : answers[i] = TRUE) =>
        /\ \A k \in DOMAIN emitted : k <= 3 => emitted[k] = k
        /\ Len(tierLog) >= 2 => tierLog[2] = "easy"

\* C6 (promotion easy to medium): when the tier is easy, the previous
\* answer and the answer received now are both correct and the medium
\* array is non-empty, this selection sets the tier to medium and yields
\* the front medium question.
PromotionToMedium ==
    [][(/\ Receives(TRUE)
        /\ currentDifficulty = "easy"
        /\ Len(answers) >= 1 /\ answers[Len(answers)] = TRUE
        /\ medium # <<>>)
       => /\ currentDifficulty' = "medium"
          /\ Emits(Head(medium))
          /\ medium' = Tail(medium)]_vars

\* Promoted by the second of two correct answers that follow a wrong one.
PromotionToMediumWitness ==
    \E n \in 3..Len(answers) :
        /\ answers[n - 2] = FALSE /\ answers[n - 1] = TRUE /\ answers[n] = TRUE
        /\ Len(tierLog) > n
        /\ tierLog[n - 1] = "easy" /\ tierLog[n] = "easy" /\ tierLog[n + 1] = "medium"
        /\ questions[emitted[n + 1]] = "medium"

\* C7 (promotion medium to hard): when the answer received now is the third
\* consecutive correct answer received at medium and the hard array is
\* non-empty, this selection sets the tier to hard and yields the front hard
\* question; and the tier becomes hard only in such a step, never with
\* fewer than three correct answers since the tier became medium.
PromotionToHard ==
    [][/\ (/\ Receives(TRUE)
           /\ currentDifficulty = "medium"
           /\ LastCorrectAt(2, "medium")
           /\ hard # <<>>)
          => /\ currentDifficulty' = "hard"
             /\ Emits(Head(hard))
             /\ hard' = Tail(hard)
       /\ (currentDifficulty # "hard" /\ currentDifficulty' = "hard")
          => /\ Receives(TRUE)
             /\ currentDifficulty = "medium"
             /\ LastCorrectAt(2, "medium")]_vars

\* Promoted to hard a second time, after a demotion from hard to medium.
PromotionToHardWitness ==
    \E i, j \in DOMAIN tierLog :
        /\ 1 < i /\ i < j /\ 1 < j
        /\ tierLog[i - 1] = "medium" /\ tierLog[i] = "hard"
        /\ answers[i] = FALSE /\ tierLog[i + 1] = "medium"
        /\ tierLog[j - 1] = "medium" /\ tierLog[j] = "hard"
        /\ questions[emitted[j]] = "hard"

\* C8 (single-step demotion): a step taken at hard never ends at easy; when
\* it receives an incorrect answer and the generator runs on, it ends at
\* medium; and between a yield at hard and a later yield at easy at least
\* two incorrect answers were received.
SingleStepDemotion ==
    /\ [][currentDifficulty = "hard"
           => /\ currentDifficulty' # "easy"
              /\ (Receives(FALSE) /\ pc' # "done") => currentDifficulty' = "medium"]_vars
    /\ [](\A i, j \in DOMAIN tierLog :
            (i < j /\ tierLog[i] = "hard" /\ tierLog[j] = "easy")
                => Incorrect(i, j - 1) >= 2)

\* Demoted from hard to medium by one wrong answer and to easy by the next.
SingleStepDemotionWitness ==
    \E n \in DOMAIN answers :
        /\ n + 2 <= Len(tierLog)
        /\ tierLog[n] = "hard" /\ answers[n] = FALSE
        /\ tierLog[n + 1] = "medium" /\ answers[n + 1] = FALSE
        /\ tierLog[n + 2] = "easy"

\* C9 (floor): a step that receives an incorrect answer at easy leaves the
\* tier at easy, does not take the break exit, and, while a question is
\* left, yields the front of easy, else of medium, else of hard.
FloorBehaviour ==
    [][(Receives(FALSE) /\ currentDifficulty = "easy")
       => /\ currentDifficulty' = "easy"
          /\ exitPath' # "break"
          /\ PoolNonEmpty(Locals) => Emits(Front(easy, medium, hard))
          /\ ~PoolNonEmpty(Locals) => pc' = "done" /\ emitted' = emitted]_vars

\* A wrong answer at easy with the easy array empty: a hard question is
\* yielded while the tier stays easy.
FloorBehaviourWitness ==
    \E n \in DOMAIN answers :
        /\ n >= 2 /\ n < Len(tierLog)
        /\ tierLog[n] = "easy" /\ answers[n] = FALSE
        /\ tierLog[n + 1] = "easy"
        /\ questions[emitted[n + 1]] = "hard"
        /\ \E k \in 1..n : questions[emitted[k]] = "medium"

\* C10 (blocked promotion): when a correct answer brings the streak to the
\* threshold but the target array is empty, the tier is unchanged and the
\* question comes from the fixed list: at easy with medium empty, the front
\* of easy, else of hard; at medium with hard empty, the front of medium,
\* else of easy.
BlockedPromotion ==
    [][/\ (/\ Receives(TRUE) /\ PoolNonEmpty(Locals)
           /\ currentDifficulty = "easy" /\ consecutiveCorrect' >= 2
           /\ medium = <<>>)
          => /\ currentDifficulty' = "easy"
             /\ Emits(Front(easy, hard, <<>>))
       /\ (/\ Receives(TRUE) /\ PoolNonEmpty(Locals)
           /\ currentDifficulty = "medium" /\ consecutiveMediumCorrect' >= 3
           /\ hard = <<>>)
          => /\ currentDifficulty' = "medium"
             /\ Emits(Front(medium, easy, <<>>))]_vars

\* Both blocked promotions in one session: after three correct answers at
\* medium with the hard and medium arrays empty an easy question was yielded
\* at medium, and now, back at easy with the streak at the threshold and the
\* medium array empty, an easy question was yielded at easy.
BlockedPromotionWitness ==
    /\ \E n \in 3..Len(answers) :
          /\ n < Len(tierLog)
          /\ \A i \in (n - 2)..n : answers[i] = TRUE /\ tierLog[i] = "medium"
          /\ tierLog[n + 1] = "medium"
          /\ questions[emitted[n + 1]] = "easy"
    /\ pc = "loop" /\ lastAnswer = Some(TRUE)
    /\ currentDifficulty = "easy" /\ consecutiveCorrect >= 2
    /\ medium = <<>>
    /\ questions[emitted[Len(emitted)]] = "easy"

----------------------------------------------------------------------------
\* The position of the first easy question of the input.
FirstEasy ==
    CHOOSE i \in DOMAIN questions :
        questions[i] = "easy" /\ \A j \in 1..(i - 1) : questions[j] # "easy"

\* The session opened with the opening move (the input holds an easy question).
Opened == "easy" \in Range(questions)

\* The number of correct answers at the end of the answers given so far.
RECURSIVE TrailingCorrect(_)
TrailingCorrect(n) ==
    IF n = 0 \/ answers[n] = FALSE THEN 0 ELSE 1 + TrailingCorrect(n - 1)

\* The number of correct answers since the most recent incorrect answer or
\* change of tier: answer n counts when it is correct and the selection it
\* led to kept the tier.
RECURSIVE CorrectSinceReset(_)
CorrectSinceReset(n) ==
    IF n = 0 \/ answers[n] = FALSE \/ tierLog[n + 1] # tierLog[n] THEN 0
    ELSE 1 + CorrectSinceReset(n - 1)

\* The array of the current tier.
CurrentTierArray ==
    IF currentDifficulty = "easy" THEN easy
    ELSE IF currentDifficulty = "medium" THEN medium ELSE hard

----------------------------------------------------------------------------
EmptyInputIsAnError == ~(Len(questions) = 0 /\ pc = "done")

\* C14 (protocol violations are errors): no call of next(answer) returns
\* normally unless it answers a pending question: a suspended generator has
\* been given exactly one answer per question yielded before the pending
\* one, a finished one exactly one answer per question yielded.
ProtocolViolationsRejected ==
    /\ Suspended => Len(answers) + 1 = Len(emitted)
    /\ pc = "done" => Len(answers) = Len(emitted)

\* C18 (the opening answer is counted once): after the answer to the
\* opening easy question the streak is 1 if it was correct and 0 if not, and
\* the second question is selected with the tier still easy.
OpeningCountedOnce ==
    (Opened /\ pc = "loop" /\ Len(answers) = 1) =>
        /\ consecutiveCorrect = (IF answers[1] = TRUE THEN 1 ELSE 0)
        /\ currentDifficulty = "easy"

StayRule ==
    [][(/\ Receives(TRUE) /\ PoolNonEmpty(Locals)
        /\ ~(currentDifficulty = "easy" /\ consecutiveCorrect' >= 2)
        /\ ~(currentDifficulty = "medium" /\ consecutiveMediumCorrect' >= 3))
       => /\ currentDifficulty' = currentDifficulty
          /\ Emits(IF CurrentTierArray # <<>> THEN Head(CurrentTierArray)
                   ELSE Front(easy, medium, hard))]_vars

\* At hard with the hard array empty an easy question was yielded although
\* a medium question was left.
StayRuleWitness ==
    /\ pc = "loop" /\ lastAnswer = Some(TRUE)
    /\ Len(tierLog) >= 2
    /\ tierLog[Len(tierLog) - 1] = "hard" /\ currentDifficulty = "hard"
    /\ hard = <<>> /\ medium # <<>>
    /\ questions[emitted[Len(emitted)]] = "easy"

----------------------------------------------------------------------------
\* A question is displayed and not yet answered.
Pending == screen = "quiz" /\ answerButtons = "enabled"

\* The step is a run of handleAnswerClick recording the answer b.
Records(b) == timers' = Append(timers, b)

\* The attempt showResults stored last.
LastAttempt == scoreHistory[Len(scoreHistory)]

\* C12 (request-response alternation in the app): handleAnswerClick runs at
\* most once on a displayed question and schedules exactly one
\* showNextQuestion; the generator is suspended on one more question than
\* it has received answers, so it is never advanced twice without an answer
\* in between; and every answer recorded by the quiz belongs to a question
\* the generator has produced.
Alternation ==
    /\ clicks <= 1
    /\ Len(timers) <= 1
    /\ screen = "quiz" => Len(timers) = clicks
    /\ timers # <<>> => Suspended /\ answerButtons = "disabled"
    /\ Suspended => Len(emitted) = Len(answers) + 1
    /\ pc = "done" => Len(emitted) = Len(answers)
    /\ quiz = "object" =>
          /\ questionIndex = Len(answers) + Len(timers)
          /\ questionIndex <= Len(emitted)

\* The second question has been answered and its timer is pending.
AlternationWitness ==
    /\ screen = "quiz"
    /\ clicks = 1 /\ answerButtons = "disabled"
    /\ Len(timers) = 1
    /\ Len(answers) = 1 /\ Len(emitted) = 2 /\ questionIndex = 2

\* C15 (scorer accounting): each processed answer adds 1 to questionIndex,
\* 1 to exactly one of correctAnswers and incorrectAnswers, and 1 to score
\* iff it is correct, whatever the difficulty of the question; in every
\* state score = correctAnswers and correctAnswers + incorrectAnswers =
\* questionIndex <= questions.length.
ScorerAccounting ==
    /\ [](/\ score = correctAnswers
          /\ correctAnswers + incorrectAnswers = questionIndex
          /\ questionIndex <= Len(questions))
    /\ [][\A b \in BOOLEAN : Records(b) =>
             /\ questionIndex' = questionIndex + 1
             /\ correctAnswers' = correctAnswers + (IF b THEN 1 ELSE 0)
             /\ incorrectAnswers' = incorrectAnswers + (IF b THEN 0 ELSE 1)
             /\ score' = score + (IF b THEN 1 ELSE 0)]_allVars

\* Three answers, one wrong, the last a correct answer to a hard question.
ScorerAccountingWitness ==
    /\ questionIndex = 3 /\ score = 2 /\ incorrectAnswers = 1
    /\ questions[currentQuestion] = "hard"
    /\ timers = <<TRUE>>

\* C16 (completion coincides with exhaustion): isEnded() is false while a
\* question is displayed and unanswered, and once the generator has
\* reported done questionIndex equals questions.length.
CompletionIsExhaustion ==
    /\ Pending => ~IsEnded
    /\ pc = "done" => IsEnded

\* The generator reported done after three questions, one answered wrongly.
CompletionIsExhaustionWitness ==
    /\ pc = "done" /\ exitPath = "while"
    /\ Len(questions) = 3 /\ questionIndex = 3
    /\ incorrectAnswers >= 1
    /\ screen = "results"

\* C17 (session summary on exhaustion): showResults, and with it addScore,
\* runs once per session, only when every question of the pool has been
\* answered and no timer is pending; the attempt it stores has score =
\* correctAnswers and total = questions.length = correctAnswers +
\* incorrectAnswers; and when every displayed question is answered a
\* session that shows a question comes to show the results.
SessionSummary ==
    /\ [](/\ resultsShown <= 1
          /\ screen = "quiz" => resultsShown = 0
          /\ screen = "results" =>
                /\ resultsShown = 1
                /\ timers = <<>>
                /\ questionIndex = Len(questions)
                /\ Len(emitted) = Len(questions)
                /\ LastAttempt.score = score
                /\ LastAttempt.score = correctAnswers
                /\ LastAttempt.total = Len(questions)
                /\ correctAnswers + incorrectAnswers = LastAttempt.total)
    /\ [][scoreHistory' # scoreHistory =>
             /\ screen # "results" /\ screen' = "results"
             /\ Len(scoreHistory') = Len(scoreHistory) + 1]_allVars
    /\ (screen = "quiz" ~> screen = "results")

\* The results of a second session of three questions, two answered correctly.
SessionSummaryWitness ==
    /\ screen = "results"
    /\ Len(scoreHistory) = 2
    /\ LastAttempt = [score |-> 2, total |-> 3]
    /\ incorrectAnswers = 1

----------------------------------------------------------------------------
\* The array of tier t as the body of the generator sees it before the
\* step: the filtered input when no line has run yet.
TierArrayBefore(t) == IF pc = "created" THEN Filter(questions, t) ELSE Locals[t]

\* The array of tier t after the step.
TierArrayAfter(t) ==
    IF t = "easy" THEN easy' ELSE IF t = "medium" THEN medium' ELSE hard'

\* The question yielded last.
LastEmitted == emitted[Len(emitted)]

\* easy < medium < hard.
TierRank(t) == IF t = "easy" THEN 1 ELSE IF t = "medium" THEN 2 ELSE 3

\* C21 (demotion fallback order): a step that receives an incorrect answer
\* at hard moves the tier to medium and yields the front of medium, else of
\* easy, else of hard; at medium it moves the tier to easy and yields the
\* front of easy, else of medium, else of hard; the tier moves also when
\* the array of the target tier is empty.
DemotionFallbackOrder ==
    [][(Receives(FALSE) /\ PoolNonEmpty(Locals))
       => /\ currentDifficulty = "hard"
               => /\ currentDifficulty' = "medium"
                  /\ Emits(Front(medium, easy, hard))
          /\ currentDifficulty = "medium"
               => /\ currentDifficulty' = "easy"
                  /\ Emits(Front(easy, medium, hard))]_vars

\* A wrong answer at hard moved the tier to medium although no medium
\* question was left, and an easy question was yielded.
DemotionFallbackOrderWitness ==
    /\ pc = "loop" /\ Len(tierLog) >= 2
    /\ tierLog[Len(tierLog) - 1] = "hard"
    /\ answers[Len(answers)] = FALSE
    /\ currentDifficulty = "medium"
    /\ medium = <<>>
    /\ questions[LastEmitted] = "easy"

\* C22 (streak resets): a step that processes an incorrect answer leaves
\* consecutiveCorrect at 0; a step that moves the tier to medium, from easy
\* or from hard, and a step that moves it from medium to easy leave
\* consecutiveMediumCorrect at 0; and a step moves the tier from medium to
\* hard only when the last three answers were correct answers to questions
\* yielded at medium.
StreakResets ==
    [][/\ (Receives(FALSE) /\ pc' = "loop") => consecutiveCorrect' = 0
       /\ (currentDifficulty' # currentDifficulty /\ currentDifficulty' = "medium")
             => consecutiveMediumCorrect' = 0
       /\ (currentDifficulty = "medium" /\ currentDifficulty' = "easy")
             => consecutiveMediumCorrect' = 0
       /\ (currentDifficulty = "medium" /\ currentDifficulty' = "hard")
             => /\ Len(answers') >= 3
                /\ \A i \in (Len(answers') - 2)..Len(answers') :
                      answers'[i] = TRUE /\ tierLog[i] = "medium"]_vars

\* Promoted to hard a second time, after a drop from hard to medium.
StreakResetsWitness ==
    /\ pc = "loop" /\ Len(tierLog) = 9
    /\ tierLog[5] = "hard" /\ answers[5] = FALSE
    /\ tierLog[6] = "medium"
    /\ tierLog[9] = "hard"
    /\ consecutiveCorrect = 3 /\ consecutiveMediumCorrect = 3

\* C23 (no-signal fallback): the generator stands in the loop without a
\* prior answer only when the input has no easy question and only after its
\* first question, which is then the front of medium, else of hard, with
\* the tier easy and both streak counters 0; every later pass of the loop
\* has an answer.
NoSignalFallback ==
    /\ (pc = "loop" /\ lastAnswer = NullAnswer)
          => /\ ~Opened
             /\ Len(emitted) = 1
             /\ emitted[1] = Front(Filter(questions, "easy"),
                                   Filter(questions, "medium"),
                                   Filter(questions, "hard"))
             /\ currentDifficulty = "easy"
             /\ consecutiveCorrect = 0 /\ consecutiveMediumCorrect = 0
    /\ (pc = "loop" /\ ~Opened /\ Len(emitted) = 1) => lastAnswer = NullAnswer
    /\ (pc = "loop" /\ (Opened \/ Len(emitted) >= 2))
          => lastAnswer \in {Some(TRUE), Some(FALSE)}

\* Without an easy question the session opened with the first medium one,
\* which stands behind a hard question.
NoSignalFallbackWitness ==
    /\ pc = "loop" /\ lastAnswer = NullAnswer
    /\ Len(questions) >= 3 /\ questions[1] = "hard" /\ questions[2] = "medium"
    /\ emitted = <<2>>

\* C24 (single removal per step): a step that yields a question removes it
\* from the front of one tier array and leaves the other two arrays as they
\* were; a step that yields nothing leaves all three as they were.
SingleRemoval ==
    [][/\ Len(emitted') = Len(emitted) + 1
             => \E t \in Tiers :
                   /\ TierArrayBefore(t) # <<>>
                   /\ emitted'[Len(emitted')] = Head(TierArrayBefore(t))
                   /\ TierArrayAfter(t) = Tail(TierArrayBefore(t))
                   /\ \A u \in Tiers \ {t} : TierArrayAfter(u) = TierArrayBefore(u)
       /\ Len(emitted') = Len(emitted)
             => \A t \in Tiers : TierArrayAfter(t) = TierArrayBefore(t)]_vars

\* After a wrong answer at easy the empty easy array was probed, a medium
\* question was taken and the hard array is still whole.
SingleRemovalWitness ==
    /\ pc = "loop" /\ lastAnswer = Some(FALSE)
    /\ Len(tierLog) >= 2 /\ tierLog[Len(tierLog) - 1] = "easy"
    /\ currentDifficulty = "easy"
    /\ easy = <<>>
    /\ questions[LastEmitted] = "medium"
    /\ hard # <<>> /\ hard = Filter(questions, "hard")

\* C25 (FIFO within a tier): of two yielded questions of the same
\* difficulty the one earlier in the input was yielded earlier.
FifoWithinTier ==
    \A i, j \in DOMAIN emitted :
        (i < j /\ questions[emitted[i]] = questions[emitted[j]])
            => emitted[i] < emitted[j]

\* A finished session over two questions of each tier, yielded in an order
\* that is not the input order.
FifoWithinTierWitness ==
    /\ pc = "done" /\ Len(questions) = 6
    /\ \A t \in Tiers : Len(Filter(questions, t)) = 2
    /\ MixedAnswers
    /\ \E i, j \in DOMAIN emitted : i < j /\ emitted[i] > emitted[j]

\* The questions yielded up to and including yield i.
EmittedUpTo(i) == {emitted[k] : k \in 1..i}

\* What next(answer) would give in this state.
IfAnswered(answer) == ResumeNext(Locals, pc, answer)

\* C26 (restart is full reconstruction): every step in which the fetch of
\* startQuiz resolves leaves a quiz with score, questionIndex,
\* correctAnswers and incorrectAnswers 0, hintsRemaining 3 and a generator
\* that has taken no answer, stands at easy with both streak counters 0, and
\* holds the whole new pool: its arrays and the question it yielded, if
\* any, are exactly the questions of the new quiz.
FullReconstruction ==
    [][(screen = "loading" /\ screen' \in {"quiz", "results"})
       => /\ quiz' = "object"
          /\ score' = 0 /\ questionIndex' = 0
          /\ correctAnswers' = 0 /\ incorrectAnswers' = 0
          /\ hintsRemaining' = 3
          /\ answers' = <<>> /\ lastAnswer' = NullAnswer
          /\ currentDifficulty' = "easy"
          /\ consecutiveCorrect' = 0 /\ consecutiveMediumCorrect' = 0
          /\ Len(emitted') <= 1
          /\ Len(emitted') + Len(easy') + Len(medium') + Len(hard') = Len(questions')
          /\ Range(emitted') \cup Range(easy') \cup Range(medium') \cup Range(hard')
                = DOMAIN questions'
          /\ pc' = "done" <=> questions' = <<>>]_allVars

\* The first question of a second session, after a first session that ended
\* with a score of 2 out of 3.
FullReconstructionWitness ==
    /\ screen = "quiz" /\ Pending
    /\ scoreHistory = <<[score |-> 2, total |-> 3]>>
    /\ Len(questions) = 3 /\ questionIndex = 0 /\ score = 0
    /\ Len(emitted) = 1 /\ answers = <<>>

\* C27 (tier moves are single steps): across one step the tier stays or
\* moves to an adjacent tier, and the tier hard is entered only from medium.
AdjacentTierMoves ==
    [][/\ TierRank(currentDifficulty') - TierRank(currentDifficulty) \in {-1, 0, 1}
       /\ (currentDifficulty' = "hard" /\ currentDifficulty # "hard")
             => currentDifficulty = "medium"]_vars

\* Up to hard, down to easy and up to medium again in nine questions.
AdjacentTierMovesWitness ==
    tierLog = <<"easy", "medium", "medium", "medium", "hard",
                "medium", "easy", "easy", "medium">>

\* C28 (the yielded question matches the tier when possible): in every step
\* that yields a question, if the array of the tier the step ends at was
\* non-empty before the step, the question has the difficulty of that tier.
EmittedMatchesTier ==
    [][Len(emitted') = Len(emitted) + 1
       => (TierArrayBefore(currentDifficulty') # <<>>
             => questions[emitted'[Len(emitted')]] = currentDifficulty')]_vars

\* Dropped from hard to medium and given a medium question although easy
\* questions were left.
EmittedMatchesTierWitness ==
    /\ pc = "loop" /\ Len(tierLog) >= 2
    /\ tierLog[Len(tierLog) - 1] = "hard"
    /\ currentDifficulty = "medium"
    /\ questions[LastEmitted] = "medium"
    /\ easy # <<>> /\ hard # <<>>

\* C29 (lock at easy when medium is empty): a step taken at easy with the
\* medium array empty leaves the tier at easy and the medium array empty;
\* hence after a yield at easy by which every medium question of the input
\* has been yielded, every later yield is at easy.
LockAtEasy ==
    /\ [][(Suspended /\ currentDifficulty = "easy" /\ medium = <<>>)
          => (currentDifficulty' = "easy" /\ medium' = <<>>)]_vars
    /\ [](\A i, j \in DOMAIN tierLog :
            (/\ i < j
             /\ tierLog[i] = "easy"
             /\ Range(Filter(questions, "medium")) \subseteq EmittedUpTo(i))
                => tierLog[j] = "easy")

\* After the only medium question was used up the tier is easy, two more
\* correct answers were given, and a hard question was yielded at easy.
LockAtEasyWitness ==
    /\ pc = "loop"
    /\ "medium" \in Range(questions) /\ medium = <<>>
    /\ currentDifficulty = "easy"
    /\ consecutiveCorrect >= 2
    /\ lastAnswer = Some(TRUE)
    /\ questions[LastEmitted] = "hard"

\* C30 as claimed: in every state where the generator waits for an answer,
\* the question yielded after a correct answer is not of lower difficulty
\* than the question yielded after an incorrect answer.
MonotoneResponse ==
    Suspended =>
        LET c == IfAnswered(TRUE)
            w == IfAnswered(FALSE)
        IN  (c.value # Undefined /\ w.value # Undefined)
               => TierRank(questions[c.value]) >= TierRank(questions[w.value])

\* The tier is hard, no hard question is left, easy and medium ones are.
HardExhausted ==
    /\ currentDifficulty = "hard" /\ hard = <<>>
    /\ easy # <<>> /\ medium # <<>>

\* C30 as amended: the same, except at hard with the hard array exhausted
\* and both other arrays non-empty, where a correct answer yields an easy
\* question and an incorrect answer a medium question.
MonotoneResponseUnlessHardExhausted ==
    Suspended =>
        LET c == IfAnswered(TRUE)
            w == IfAnswered(FALSE)
        IN  IF HardExhausted
            THEN /\ questions[c.value] = "easy"
                 /\ questions[w.value] = "medium"
            ELSE (c.value # Undefined /\ w.value # Undefined)
                    => TierRank(questions[c.value]) >= TierRank(questions[w.value])

\* At medium with two correct answers in the streak: a correct answer
\* yields a hard question, an incorrect one an easy question.
MonotoneResponseWitness ==
    /\ pc = "loop"
    /\ currentDifficulty = "medium" /\ consecutiveMediumCorrect = 2
    /\ easy # <<>> /\ hard # <<>>
    /\ questions[IfAnswered(TRUE).value] = "hard"
    /\ questions[IfAnswered(FALSE).value] = "easy"

\* C31 (the generator never mutates its input): from the creation of a
\* quiz to its end quiz.questions is the same array, of the length of the
\* pool the fetch resolved with: the questions yielded and the questions
\* left in the tier arrays make up exactly that many, and the total stored
\* with the results is that length.
InputUnchanged ==
    /\ [][(quiz = "object" /\ quiz' = "object") => questions' = questions]_allVars
    /\ [](quiz = "object" =>
            /\ Len(emitted) + Len(easy) + Len(medium) + Len(hard) = Len(questions)
            /\ Range(emitted) \cup Range(easy) \cup Range(medium) \cup Range(hard)
                  = DOMAIN questions)
    /\ [](screen = "results" => LastAttempt.total = Len(questions))

\* The results of a session that yielded its three questions in the
\* reverse of their input order.
InputUnchangedWitness ==
    /\ screen = "results"
    /\ questions = <<"hard", "medium", "easy">>
    /\ emitted = <<3, 2, 1>>
    /\ questionIndex = 3

\* C32 (hint budget): hintsRemaining is always between 0 and 3; a step
\* that lowers it lowers it by 1, starts with a hint left and none used on
\* the displayed question, and marks the hint as used on that question;
\* while hintsRemaining is 0 or the hint is used, no step on the same
\* question changes either; the mark is cleared only when a new question is
\* displayed; and hintsRemaining rises only to 3 and only off the quiz
\* screen, so a session consumes at most three hints.
HintBudget ==
    /\ [](hintsRemaining \in 0..3)
    /\ [][/\ hintsRemaining' < hintsRemaining
                => /\ hintsRemaining' = hintsRemaining - 1
                   /\ hintsRemaining > 0
                   /\ ~usedHintOnCurrentQuestion /\ usedHintOnCurrentQuestion'
                   /\ emitted' = emitted
                   /\ screen = "quiz"
          /\ ((hintsRemaining <= 0 \/ usedHintOnCurrentQuestion)
                /\ screen = "quiz" /\ screen' = "quiz" /\ emitted' = emitted)
                => UNCHANGED <<hintsRemaining, usedHintOnCurrentQuestion>>
          /\ (usedHintOnCurrentQuestion /\ ~usedHintOnCurrentQuestion')
                => emitted' # emitted /\ emitted' # <<>> /\ screen' = "quiz"
          /\ hintsRemaining' > hintsRemaining
                => hintsRemaining' = 3 /\ screen # "quiz"]_allVars

\* The third hint of a session, used on its third question.
HintBudgetWitness ==
    /\ screen = "quiz"
    /\ Len(emitted) = 3
    /\ hintsRemaining = 0
    /\ usedHintOnCurrentQuestion /\ hintBtnDisabled

\* C33 (a hint is consumed only on an unanswered question): while the
\* displayed question is answered and its timer has not yet displayed the
\* next one, no step lowers hintsRemaining.
NoHintAfterAnswer ==
    [][(screen = "quiz" /\ answerButtons = "disabled" /\ timers # <<>>)
       => hintsRemaining' >= hintsRemaining]_allVars

====
